---------------------------- MODULE Spec2Model ----------------------------
(***************************************************************************)
(* SOAPify backend: the note-generation pipeline.                          *)
(*                                                                         *)
(*   - generate_soap_notes  (app/api/v1/endpoints/notes.py): the submit    *)
(*     handler; one database transaction per request, run in a thread of   *)
(*     the server's pool, so requests interleave at their SQL statements.  *)
(*   - process_transcript_task (app/services/llm_engine.py): the           *)
(*     background run scheduled for each created note.                     *)
(*   - validate_soap_output (app/services/soap_validator.py).              *)
(*   - get_collection / store_note_embedding / retrieve_patient_history    *)
(*     (app/services/rag_engine.py): the retrieval store.                  *)
(*   - get_note_status / update_soap_note (notes.py).                      *)
(*                                                                         *)
(* Text is a sequence of tokens.  A token is one character, except that    *)
(* each section marker ("SUBJECTIVE:" ...), each fixed message of the      *)
(* program and the sentinel phrase are single tokens: Python's substring   *)
(* search for a marker is then a search for a token.                       *)
(***************************************************************************)
EXTENDS Integers, Sequences, FiniteSets, TLC

(***************************************************************************)
(* Bounds of the model.                                                    *)
(***************************************************************************)
\* number of submit requests (and so of notes and background runs) of Spec,
\* the whole system
MaxReq == 1
\* number of submit requests of SubmitSpec, the submit handler alone
MaxSubmit == 3

\* Python's Optional: None is the empty tuple, a present value x is <<x>>
None == <<>>

Some(x) == <<x>>

Get(opt) == opt[1]

(***************************************************************************)
(* Text helpers (Python str methods, on token sequences).                  *)
(***************************************************************************)
IsWS(c) == c \in {" ", "\t", "\n", "\r"}

IsDigit(c) == c \in {"0", "1", "2", "3", "4", "5", "6", "7", "8", "9"}

RECURSIVE LStrip(_)
LStrip(s) ==
    IF s = <<>> THEN s
    ELSE IF IsWS(Head(s)) THEN LStrip(Tail(s)) ELSE s

RECURSIVE RStrip(_)
RStrip(s) ==
    IF s = <<>> THEN s
    ELSE IF IsWS(s[Len(s)]) THEN RStrip(SubSeq(s, 1, Len(s) - 1)) ELSE s

\* str.strip()
Strip(s) == RStrip(LStrip(s))

\* "tok in s"
Contains(s, tok) == \E i \in 1..Len(s) : s[i] = tok

\* s.index(tok) / s.find(tok): the first occurrence
Index(s, tok) ==
    CHOOSE i \in 1..Len(s) : s[i] = tok /\ \A j \in 1..(i - 1) : s[j] # tok

ASCII_LOWERCASE ==
    <<"a", "b", "c", "d", "e", "f", "g", "h", "i", "j", "k", "l", "m",
      "n", "o", "p", "q", "r", "s", "t", "u", "v", "w", "x", "y", "z">>

ASCII_UPPERCASE ==
    <<"A", "B", "C", "D", "E", "F", "G", "H", "I", "J", "K", "L", "M",
      "N", "O", "P", "Q", "R", "S", "T", "U", "V", "W", "X", "Y", "Z">>

\* str.lower() of one token: a letter, or the sentinel phrase in any letter case
LowerTok(c) ==
    IF c \in {"Not mentioned", "NOT MENTIONED", "not mentioned"}
    THEN "not mentioned"
    ELSE IF \E i \in 1..26 : ASCII_UPPERCASE[i] = c
    THEN ASCII_LOWERCASE[CHOOSE i \in 1..26 : ASCII_UPPERCASE[i] = c]
    ELSE c

Lower(s) == [i \in 1..Len(s) |-> LowerTok(s[i])]

(***************************************************************************)
(* notes.py: sanitize_transcript.  Transcripts are sequences of            *)
(* characters.                                                             *)
(***************************************************************************)
\* \w
IsWordChar(c) ==
    \/ \E i \in 1..26 : ASCII_LOWERCASE[i] = c \/ ASCII_UPPERCASE[i] = c
    \/ IsDigit(c)
    \/ c = "_"

\* str.replace(old, new), old a non-empty token sequence
RECURSIVE Replace(_, _, _)
Replace(s, old, new) ==
    IF Len(s) < Len(old) THEN s
    ELSE IF SubSeq(s, 1, Len(old)) = old
    THEN new \o Replace(SubSeq(s, Len(old) + 1, Len(s)), old, new)
    ELSE <<Head(s)>> \o Replace(Tail(s), old, new)

\* the end of the whitespace run that starts at s[1]
RECURSIVE WsRunEnd(_, _)
WsRunEnd(s, i) ==
    IF i < Len(s) /\ IsWS(s[i + 1]) THEN WsRunEnd(s, i + 1) ELSE i

\* re.sub(r"\n\s*\n+", "\n", s): a line break, whitespace, and one or more
\* line breaks become one line break (the match ends at the last line break
\* of the whitespace run)
RECURSIVE CollapseBlankLines(_)
CollapseBlankLines(s) ==
    IF s = <<>> THEN <<>>
    ELSE IF Head(s) = "\n"
    THEN LET e == WsRunEnd(s, 1)
             nl == {j \in 2..e : s[j] = "\n"}
             last == CHOOSE j \in nl : \A k \in nl : k <= j
         IN  IF nl # {}
             THEN <<"\n">> \o CollapseBlankLines(SubSeq(s, last + 1, Len(s)))
             ELSE <<"\n">> \o CollapseBlankLines(Tail(s))
    ELSE <<Head(s)>> \o CollapseBlankLines(Tail(s))

\* a variant that replaces each pair of blanks, not each run
RECURSIVE CollapseSpacePairs(_)
CollapseSpacePairs(s) ==
    IF s = <<>> THEN <<>>
    ELSE IF Head(s) \in {" ", "\t"}
    THEN IF Len(s) >= 2 /\ s[2] \in {" ", "\t"}
         THEN <<" ">> \o CollapseSpacePairs(Tail(Tail(s)))
         ELSE <<" ">> \o CollapseSpacePairs(Tail(s))
    ELSE <<Head(s)>> \o CollapseSpacePairs(Tail(s))

\* re.sub(r"[ \t]+", " ", s)
RECURSIVE CollapseSpaces(_)
CollapseSpaces(s) ==
    IF s = <<>> THEN <<>>
    ELSE IF Head(s) \in {" ", "\t"}
    THEN IF Len(s) >= 2 /\ s[2] \in {" ", "\t"}
         THEN CollapseSpaces(Tail(s))
         ELSE <<" ">> \o CollapseSpaces(Tail(s))
    ELSE <<Head(s)>> \o CollapseSpaces(Tail(s))

\* \b between s[p - 1] and s[p]
WordBoundary(s, p) ==
    LET before == p - 1 >= 1 /\ p - 1 <= Len(s) /\ IsWordChar(s[p - 1])
        after == p >= 1 /\ p <= Len(s) /\ IsWordChar(s[p])
    IN  before # after

\* a variant that compares the letters as written
MatchesAtSameCase(s, i, pat) ==
    /\ i + Len(pat) - 1 <= Len(s)
    /\ \A k \in 1..Len(pat) : s[i + k - 1] = pat[k]
    /\ WordBoundary(s, i)
    /\ WordBoundary(s, i + Len(pat))

\* \b<pat>\b matches at s[i], letter case ignored (re.IGNORECASE)
MatchesAt(s, i, pat) ==
    /\ i + Len(pat) - 1 <= Len(s)
    /\ \A k \in 1..Len(pat) : LowerTok(s[i + k - 1]) = LowerTok(pat[k])
    /\ WordBoundary(s, i)
    /\ WordBoundary(s, i + Len(pat))

\* re.sub(r"\b<pat>\b" [+ ":?"], repl, s, flags=re.IGNORECASE), scanning from s[i]
RECURSIVE SubFrom(_, _, _, _, _)
SubFrom(s, i, pat, colon, repl) ==
    IF i > Len(s) THEN <<>>
    ELSE IF MatchesAt(s, i, pat)
    THEN LET j == i + Len(pat)
             k == IF colon /\ j <= Len(s) /\ s[j] = ":" THEN j + 1 ELSE j
         IN  repl \o SubFrom(s, k, pat, colon, repl)
    ELSE <<s[i]>> \o SubFrom(s, i + 1, pat, colon, repl)

NO_TRANSCRIPT == <<"No transcript provided.">>

sanitize_transcript(raw_text) ==
    IF raw_text = <<>> \/ Strip(raw_text) = <<>>
    THEN NO_TRANSCRIPT
    ELSE
    LET t1 == Strip(raw_text)
        t2 == Replace(Replace(t1, <<"\r", "\n">>, <<"\n">>), <<"\r">>, <<"\n">>)
        t3 == CollapseBlankLines(t2)
        t4 == CollapseSpaces(t3)
        r1 == SubFrom(t4, 1, <<"P", "t">>, TRUE,
                      <<"P", "a", "t", "i", "e", "n", "t", ":">>)
        r2 == SubFrom(r1, 1, <<"D", "r">>, TRUE,
                      <<"D", "o", "c", "t", "o", "r", ":">>)
        r3 == SubFrom(r2, 1, <<"H", "x">>, FALSE,
                      <<"H", "i", "s", "t", "o", "r", "y">>)
        r4 == SubFrom(r3, 1, <<"C", "/", "O">>, FALSE,
                      <<"C", "o", "m", "p", "l", "a", "i", "n", "s", " ", "o", "f">>)
    IN  r4

(***************************************************************************)
(* soap_validator.py                                                       *)
(***************************************************************************)
SUBJ == "SUBJECTIVE:"
OBJ == "OBJECTIVE:"
ASSESS == "ASSESSMENT:"
PLAN == "PLAN:"

REQUIRED_SECTIONS == <<SUBJ, OBJ, ASSESS, PLAN>>

ALLOWED_EMPTY_VALUE == "not mentioned"

\* positions where "^" matches under re.MULTILINE
LineStarts(s) == {i \in 1..Len(s) : i = 1 \/ s[i - 1] = "\n"}

\* a bullet: line start, optional whitespace, the bullet character, whitespace
MatchBullet(s, ch) ==
    \E i \in LineStarts(s) : \E j \in i..Len(s) :
        /\ \A k \in i..(j - 1) : IsWS(s[k])
        /\ s[j] = ch
        /\ j + 1 <= Len(s)
        /\ IsWS(s[j + 1])

\* a numbered list: line start, optional whitespace, digits, a dot, whitespace
MatchNumbered(s) ==
    \E i \in LineStarts(s) : \E j \in i..Len(s) : \E k \in j..Len(s) :
        /\ \A x \in i..(j - 1) : IsWS(s[x])
        /\ \A x \in j..k : IsDigit(s[x])
        /\ k + 2 <= Len(s)
        /\ s[k + 1] = "."
        /\ IsWS(s[k + 2])

\* the backquote character (the lexer accepts none in a string)
BQ == "BACKQUOTE"

\* a fenced-code delimiter: three backquotes anywhere
MatchFence(s) ==
    \E i \in 1..(Len(s) - 2) : s[i] = BQ /\ s[i + 1] = BQ /\ s[i + 2] = BQ

\* a markdown header: line start, one or more #, whitespace
MatchHeader(s) ==
    \E i \in LineStarts(s) : \E k \in i..Len(s) :
        /\ \A x \in i..k : s[x] = "#"
        /\ k + 1 <= Len(s)
        /\ IsWS(s[k + 1])

\* a variant that knows the two bullet patterns only
HasBullet(s) == MatchBullet(s, "-") \/ MatchBullet(s, "*")

\* any of FORBIDDEN_PATTERNS found by re.search(pattern, clean_text, re.MULTILINE)
HasForbidden(s) ==
    \/ MatchBullet(s, "-")
    \/ MatchBullet(s, "*")
    \/ MatchNumbered(s)
    \/ MatchFence(s)
    \/ MatchHeader(s)

\* a variant that does not strip the body
SectionContentRaw(clean_text, i) ==
    LET start == Index(clean_text, REQUIRED_SECTIONS[i]) + 1
        end == IF i < Len(REQUIRED_SECTIONS)
               THEN Index(clean_text, REQUIRED_SECTIONS[i + 1]) - 1
               ELSE Len(clean_text)
    IN  Lower(SubSeq(clean_text, start, end))

\* clean_text[start:end].strip().lower() of section i
SectionContent(clean_text, i) ==
    LET start == Index(clean_text, REQUIRED_SECTIONS[i]) + 1
        end == IF i < Len(REQUIRED_SECTIONS)
               THEN Index(clean_text, REQUIRED_SECTIONS[i + 1]) - 1
               ELSE Len(clean_text)
    IN  Lower(Strip(SubSeq(clean_text, start, end)))

\* positions == sorted(positions)
SectionsInOrder(clean_text) ==
    \A i \in 1..(Len(REQUIRED_SECTIONS) - 1) :
        Index(clean_text, REQUIRED_SECTIONS[i])
            <= Index(clean_text, REQUIRED_SECTIONS[i + 1])

\* the first element of 1..n that satisfies P, as the for loops find it
FirstOf(S) == CHOOSE i \in S : \A j \in S : i <= j

validate_soap_output(text) ==
    IF text = <<>> \/ Strip(text) = <<>>
    THEN [valid |-> FALSE, reason |-> <<"Empty output">>]
    ELSE
    LET clean_text == Strip(text)
        missing == {i \in 1..Len(REQUIRED_SECTIONS) :
                        ~Contains(clean_text, REQUIRED_SECTIONS[i])}
        empty == {i \in 1..Len(REQUIRED_SECTIONS) :
                        SectionContent(clean_text, i) = <<>>}
    IN  IF clean_text[1] # SUBJ
        THEN [valid |-> FALSE, reason |-> <<"SOAP must start with SUBJECTIVE">>]
        ELSE IF missing # {}
        THEN [valid |-> FALSE,
              reason |-> <<"Missing section: ", REQUIRED_SECTIONS[FirstOf(missing)]>>]
        ELSE IF ~SectionsInOrder(clean_text)
        THEN [valid |-> FALSE, reason |-> <<"Sections out of order">>]
        ELSE IF HasForbidden(clean_text)
        THEN [valid |-> FALSE, reason |-> <<"Forbidden markdown formatting detected">>]
        ELSE IF empty # {}
        THEN [valid |-> FALSE,
              reason |-> <<"Empty content under ", REQUIRED_SECTIONS[FirstOf(empty)]>>]
        \* lines 60-61: a body equal to ALLOWED_EMPTY_VALUE, with or without a
        \* period, only continues the loop, as every other body that is not empty
        ELSE [valid |-> TRUE, reason |-> <<"Valid SOAP">>]

(***************************************************************************)
(* rag_engine.py                                                           *)
(***************************************************************************)
HISTORY_FALLBACK == <<"No previous medical history available.">>

HISTORY_SEPARATOR == <<"\n---\n">>

INVALID_MARKER == "INVALID SOAP OUTPUT"

COLLECTION == Some("medical_notes")

\* a key of the doctor alone
build_doctor_key(doctor_id, patient_id) == <<ToString(doctor_id)>>

\* f"{doctor_id}_{patient_id}"
build_patient_key(doctor_id, patient_id) ==
    <<ToString(doctor_id), "_", ToString(patient_id)>>

\* the f-string of store_note_embedding, stripped
document_text(date, doctor_id, patient_id, soap_note) ==
    Strip(<<"\n", "Visit Date: ", date, "\n",
            "Doctor ID: ", ToString(doctor_id), "\n",
            "Patient ID: ", ToString(patient_id), "\n", "\n",
            "SOAP NOTE:", "\n">> \o soap_note \o <<"\n">>)

\* "\n---\n".join(docs)
RECURSIVE Join(_)
Join(docs) ==
    IF Len(docs) = 1 THEN docs[1]
    ELSE docs[1] \o HISTORY_SEPARATOR \o Join(Tail(docs))

(***************************************************************************)
(* llm_engine.py: build_prompt.  The fixed instruction block of the        *)
(* template is three tokens around the two inputs.                         *)
(***************************************************************************)
build_prompt(history, transcript) ==
    <<"[instructions] PREVIOUS MEDICAL HISTORY (REFERENCE ONLY):">>
        \o history
        \o <<"CURRENT VISIT TRANSCRIPT (SOURCE OF TRUTH):">>
        \o transcript
        \o <<"========================">>

\* if "SUBJECTIVE:" in note: note = note[note.find("SUBJECTIVE:"):]
StripPreamble(note) ==
    IF Contains(note, SUBJ)
    THEN SubSeq(note, Index(note, SUBJ), Len(note))
    ELSE note

PLACEHOLDER == <<"AI is generating your note. Please wait...">>

INTERNAL_ERROR == <<"Generation failed due to an internal error.">>

\* f"INVALID SOAP OUTPUT: {reason}"
InvalidContent(reason) == <<INVALID_MARKER, ":", " ">> \o reason

(***************************************************************************)
(* The environment: who calls, with what, and what the LLM answers.        *)
(***************************************************************************)
Doctors == {1, 2}

PatientNames == {"Jane Doe"}

Ages == {30, 31}

RawTranscripts == {<<"P", "t", " ", "c", "/", "o", " ", "f">>}

\* a well-formed note
OUT_VALID == <<SUBJ, "a", "\n", OBJ, "b", "\n", ASSESS, "c", "\n", PLAN, "d">>

\* a well-formed note after a preamble
OUT_PREAMBLE ==
    <<"H", "i", "\n", SUBJ, "e", OBJ, "Not mentioned", ASSESS, "g", PLAN, "h", "\n">>

\* a note with a bullet list
OUT_BULLET == <<SUBJ, "\n", "-", " ", "a", OBJ, "b", ASSESS, "c", PLAN, "d">>

\* a note without its last section
OUT_MISSING == <<SUBJ, "a", OBJ, "b", ASSESS, "c">>

LLMOutputs == {OUT_PREAMBLE, OUT_BULLET, OUT_MISSING}

EditTexts == {<<"e", "d", "i", "t">>}

Dates == {"2024-05-01"}

(***************************************************************************)
(* State.                                                                  *)
(***************************************************************************)
VARIABLES
    patients,        \* committed rows of table patients
    transcripts,     \* committed rows of table transcripts
    soap_notes,      \* committed rows of table soap_notes
    id_seq,          \* the next id of each table's sequence
    req,             \* the submit requests: position and locals of each
    task,            \* the background runs: position and locals of each
    rag_collection,  \* rag_engine._collection
    rag_disabled,    \* rag_engine._rag_disabled
    chroma           \* the entries of the collection "medical_notes"

vars == <<patients, transcripts, soap_notes, id_seq, req, task,
          rag_collection, rag_disabled, chroma>>

\* the requests of the behaviour: 1..MaxReq, or 1..MaxSubmit
Reqs == DOMAIN req

IdleReq ==
    [pc |-> "idle", doctor_id |-> 0, patient_name |-> "", age |-> None,
     transcript_text |-> <<>>, clean_text |-> <<>>,
     patient_id |-> 0, new_patient |-> FALSE, transcript_id |-> 0,
     next_number |-> 0, resp |-> None]

NoTask ==
    [pc |-> "none", transcript_text |-> <<>>, doctor_id |-> 0, soap_id |-> 0,
     patient_id |-> 0, prompt |-> <<>>, note |-> <<>>, valid |-> FALSE,
     reason |-> <<>>, status |-> "", calls |-> <<>>, raised_at |-> ""]

InitWith(n) ==
    /\ patients = {}
    /\ transcripts = {}
    /\ soap_notes = {}
    /\ id_seq = [patients |-> 1, transcripts |-> 1, soap_notes |-> 1]
    /\ req = [i \in 1..n |-> IdleReq]
    /\ task = [i \in 1..n |-> NoTask]
    /\ rag_collection = None
    /\ rag_disabled = FALSE
    /\ chroma = {}

Init == InitWith(MaxReq)

\* the committed row with this id (db.query(SOAPNote).filter(id == ...).first())
NoteRows(id) == {n \in soap_notes : n.id = id}

Note(id) == CHOOSE n \in soap_notes : n.id = id

TranscriptOf(n) == CHOOSE t \in transcripts : t.id = n.transcript_id

\* UPDATE soap_notes SET ... WHERE id = ...
WithNote(id, status, content) ==
    {IF n.id = id THEN [n EXCEPT !.status = status, !.content = content] ELSE n
        : n \in soap_notes}

(***************************************************************************)
(* models.py: __table_args__ of SOAPNote, the constraint                   *)
(* uq_doctor_soap_number checked when the INSERT is flushed.               *)
(***************************************************************************)
\* the table declared without the constraint
NoUniqueConstraint(doctor_id, number) == TRUE

UniqueDoctorSoapNumber(doctor_id, number) ==
    ~\E n \in soap_notes :
        n.doctor_id = doctor_id /\ n.doctor_soap_number = number

(***************************************************************************)
(* notes.py: generate_soap_notes, one action per database round trip       *)
(* that reads or publishes committed rows.                                 *)
(***************************************************************************)
SUBMIT_FAILED == [status_code |-> 500, detail |-> "Failed to submit transcript"]

\* lines 53-90: the age check, sanitize, the patient lookup, and the
\* INSERTs of the patient and the transcript (flushed, not committed: they
\* are rows of this request's transaction alone, and take their ids)
SubmitBegin(i, doctor, name, age, text) ==
    /\ req[i].pc = "idle"
    /\ \A j \in 1..(i - 1) : req[j].pc # "idle"    \* requests are numbered as they arrive
    /\ IF age = None
       THEN \* HTTPException(400) raised inside the try: caught by
            \* "except Exception", rolled back, answered as 500
            /\ req' = [req EXCEPT ![i] =
                    [IdleReq EXCEPT !.pc = "done", !.doctor_id = doctor,
                                    !.resp = Some(SUBMIT_FAILED)]]
            /\ UNCHANGED id_seq
       ELSE LET found == {p \in patients :
                            /\ p.doctor_id = doctor
                            /\ p.name = name
                            /\ p.age = Get(age)}
            IN  \/ /\ found = {}
                   /\ req' = [req EXCEPT ![i] =
                        [IdleReq EXCEPT !.pc = "begun", !.doctor_id = doctor,
                            !.patient_name = name, !.age = age,
                            !.transcript_text = text,
                            !.clean_text = sanitize_transcript(text),
                            !.patient_id = id_seq.patients,
                            !.new_patient = TRUE,
                            !.transcript_id = id_seq.transcripts]]
                   /\ id_seq' = [id_seq EXCEPT !.patients = @ + 1,
                                               !.transcripts = @ + 1]
                \/ \E p \in found :
                   /\ req' = [req EXCEPT ![i] =
                        [IdleReq EXCEPT !.pc = "begun", !.doctor_id = doctor,
                            !.patient_name = name, !.age = age,
                            !.transcript_text = text,
                            !.clean_text = sanitize_transcript(text),
                            !.patient_id = p.id,
                            !.new_patient = FALSE,
                            !.transcript_id = id_seq.transcripts]]
                   /\ id_seq' = [id_seq EXCEPT !.transcripts = @ + 1]
    /\ UNCHANGED <<patients, transcripts, soap_notes, task,
                   rag_collection, rag_disabled, chroma>>

\* func.max(doctor_soap_number) over the doctor's committed notes
MaxSoapNumber(doctor_id) ==
    LET nums == {n.doctor_soap_number : n \in {m \in soap_notes : m.doctor_id = doctor_id}}
    IN  IF nums = {} THEN None
        ELSE Some(CHOOSE x \in nums : \A y \in nums : y <= x)

\* a variant that hands the run over before the note is inserted and committed
SubmitNumberScheduling(i) ==
    /\ req[i].pc = "begun"
    /\ LET last_number == MaxSoapNumber(req[i].doctor_id)
           next_number == (IF last_number = None THEN 0 ELSE Get(last_number)) + 1
       IN  req' = [req EXCEPT ![i].pc = "numbered", ![i].next_number = next_number]
    /\ task' = [task EXCEPT ![i] =
            [NoTask EXCEPT !.pc = "start",
                           !.transcript_text = req[i].transcript_text,
                           !.doctor_id = req[i].doctor_id,
                           !.soap_id = id_seq.soap_notes]]
    /\ UNCHANGED <<patients, transcripts, soap_notes, id_seq,
                   rag_collection, rag_disabled, chroma>>

\* lines 93-99: last_number, next_number
SubmitNumber(i) ==
    /\ req[i].pc = "begun"
    /\ LET last_number == MaxSoapNumber(req[i].doctor_id)
           next_number == (IF last_number = None THEN 0 ELSE Get(last_number)) + 1
       IN  req' = [req EXCEPT ![i].pc = "numbered", ![i].next_number = next_number]
    /\ UNCHANGED <<patients, transcripts, soap_notes, id_seq, task,
                   rag_collection, rag_disabled, chroma>>

\* lines 102-135: the INSERT of the note and the COMMIT; on success the
\* background run is scheduled and the request answered; an IntegrityError
\* rolls the whole transaction back and answers 500
SubmitCommit(i) ==
    /\ req[i].pc = "numbered"
    /\ id_seq' = [id_seq EXCEPT !.soap_notes = @ + 1]
    /\ IF UniqueDoctorSoapNumber(req[i].doctor_id, req[i].next_number)
       THEN /\ patients' = patients \cup
                    (IF req[i].new_patient
                     THEN {[id |-> req[i].patient_id, doctor_id |-> req[i].doctor_id,
                            name |-> req[i].patient_name, age |-> Get(req[i].age)]}
                     ELSE {})
            /\ transcripts' = transcripts \cup
                    {[id |-> req[i].transcript_id, doctor_id |-> req[i].doctor_id,
                      patient_id |-> req[i].patient_id, text |-> req[i].clean_text]}
            /\ soap_notes' = soap_notes \cup
                    {[id |-> id_seq.soap_notes, transcript_id |-> req[i].transcript_id,
                      doctor_id |-> req[i].doctor_id,
                      doctor_soap_number |-> req[i].next_number,
                      status |-> "PROCESSING", content |-> PLACEHOLDER]}
            /\ task' = [task EXCEPT ![i] =
                    [NoTask EXCEPT !.pc = "start",
                                   !.transcript_text = req[i].transcript_text,
                                   !.doctor_id = req[i].doctor_id,
                                   !.soap_id = id_seq.soap_notes]]
            /\ req' = [req EXCEPT ![i] =
                    [IdleReq EXCEPT !.pc = "done", !.doctor_id = req[i].doctor_id,
                        !.age = req[i].age, !.next_number = req[i].next_number,
                        !.resp = Some([status_code |-> 200, id |-> id_seq.soap_notes,
                                       soap_number |-> req[i].next_number,
                                       patient_name |-> req[i].patient_name,
                                       status |-> "PROCESSING"])]]
       ELSE /\ req' = [req EXCEPT ![i] =
                    [IdleReq EXCEPT !.pc = "done", !.doctor_id = req[i].doctor_id,
                        !.age = req[i].age, !.next_number = req[i].next_number,
                        !.resp = Some(SUBMIT_FAILED)]]
            /\ UNCHANGED <<patients, transcripts, soap_notes, task>>
    /\ UNCHANGED <<rag_collection, rag_disabled, chroma>>

(***************************************************************************)
(* rag_engine.py: the operations on the collection.  Each returns the set  *)
(* of outcomes the backend allows.                                         *)
(***************************************************************************)
N_RESULTS == 2

\* get_collection without its test of _rag_disabled: a disabled store
\* attempts the initialization again
get_collection_retrying ==
    IF rag_collection # None
    THEN {[result |-> rag_collection, collection |-> rag_collection,
           disabled |-> rag_disabled]}
    ELSE {[result |-> COLLECTION, collection |-> COLLECTION, disabled |-> rag_disabled],
          [result |-> None, collection |-> None, disabled |-> TRUE]}

\* get_collection(): what it returns, and _collection and _rag_disabled after
get_collection ==
    IF rag_disabled
    THEN {[result |-> None, collection |-> rag_collection, disabled |-> TRUE]}
    ELSE IF rag_collection # None
    THEN {[result |-> rag_collection, collection |-> rag_collection,
           disabled |-> FALSE]}
    ELSE {[result |-> COLLECTION, collection |-> COLLECTION, disabled |-> FALSE],
          \* PersistentClient / get_or_create_collection raised
          [result |-> None, collection |-> None, disabled |-> TRUE]}

\* collection.query(where = {"patient_key": key}, n_results = n): the
\* documents of up to n entries of the key, in the order the index ranks them
QueryDocuments(patient_key, n) ==
    LET match == {e \in chroma : e.metadata.patient_key = patient_key}
        k == IF Cardinality(match) < n THEN Cardinality(match) ELSE n
        ranked == {f \in [1..k -> match] :
                      \A a, b \in 1..k : a # b => f[a] # f[b]}
    IN  {[j \in 1..k |-> f[j].document] : f \in ranked}

\* what a call that returns text gives its caller (a call that raises gives
\* raised |-> TRUE)
Return(text) == [raised |-> FALSE, text |-> text]

\* retrieve_patient_history without its test of the documents: no document
\* joins to the empty string
retrieve_joining_always(g, doctor_id, patient_id, n_results) ==
    IF g.result = None
    THEN {Return(HISTORY_FALLBACK)}
    ELSE {IF documents # <<>> THEN Return(Join(documents)) ELSE Return(<<>>) :
             documents \in QueryDocuments(build_patient_key(doctor_id, patient_id),
                                          n_results)}
         \cup {Return(HISTORY_FALLBACK)}

\* retrieve_patient_history, given what get_collection returned
retrieve_patient_history(g, doctor_id, patient_id, n_results) ==
    IF g.result = None
    THEN {Return(HISTORY_FALLBACK)}
    ELSE {IF documents # <<>> THEN Return(Join(documents)) ELSE Return(HISTORY_FALLBACK) :
             documents \in QueryDocuments(build_patient_key(doctor_id, patient_id),
                                          n_results)}
         \cup {Return(HISTORY_FALLBACK)}    \* collection.query raised: line 136

\* the entry collection.add writes
Embedding(date, doctor_id, patient_id, soap_note, note_id) ==
    [id |-> ToString(note_id),
     document |-> document_text(date, doctor_id, patient_id, soap_note),
     metadata |-> [patient_key |-> build_patient_key(doctor_id, patient_id),
                   doctor_id |-> doctor_id, patient_id |-> patient_id,
                   note_id |-> note_id]]

\* store_note_embedding, given what get_collection returned: the entries of
\* the collection after the call, and whether the call raised
store_note_embedding(g, doctor_id, patient_id, soap_note, note_id) ==
    IF g.result = None \/ Contains(soap_note, INVALID_MARKER)
    THEN {[chroma |-> chroma, raised |-> FALSE]}    \* STORE SKIPPED
    ELSE {[chroma |-> chroma \cup {Embedding(date, doctor_id, patient_id,
                                             soap_note, note_id)},
           raised |-> FALSE] : date \in Dates}
         \* collection.add raised: nothing catches it here
         \cup {[chroma |-> chroma, raised |-> TRUE]}

(***************************************************************************)
(* llm_engine.py: process_transcript_task.  The run suspends only at the   *)
(* two awaits of call_llm; its steps are the database and backend round    *)
(* trips around them.                                                      *)
(***************************************************************************)
\* a retry whatever the validator said
RetryAlways(valid) == TRUE

\* line 174: if not valid
RetryNeeded(valid) == ~valid

\* the status set without looking at the validation
FinalStatusCompleted(valid) == "COMPLETED"

\* line 183
FinalStatus(valid) == IF valid THEN "COMPLETED" ELSE "FAILED"

\* the output saved as it is, rejected or not
FinalContentRaw(valid, note, reason) == note

\* line 186
FinalContent(valid, note, reason) ==
    IF valid THEN note ELSE InvalidContent(reason)

\* line 191: if status == "COMPLETED"
ShouldStore(status) == status = "COMPLETED"

\* where an exception raised by call_llm goes: the except clause of line 201
AfterLLMError(pc) == "except"

\* the run is over (finally: db.close()); its locals are gone
Finished(t) == [NoTask EXCEPT !.pc = "done", !.doctor_id = t.doctor_id,
                              !.soap_id = t.soap_id]

\* The runs are coroutines of one event loop: a run that is not suspended in
\* an await of call_llm runs alone, the other runs wait for it.
Running(i) == task[i].pc \in {"save", "store", "except"}

Runnable(i) == \A j \in Reqs \ {i} : ~Running(j)

\* lines 151-165: fetch the note, its transcript's patient, the history,
\* and build the prompt from the request's transcript_text
TaskStart(i) ==
    /\ task[i].pc = "start"
    /\ Runnable(i)
    /\ IF NoteRows(task[i].soap_id) = {}
       THEN /\ task' = [task EXCEPT ![i].pc = "except", ![i].raised_at = "fetch"]
            /\ UNCHANGED <<rag_collection, rag_disabled>>
       ELSE LET soap == Note(task[i].soap_id)
                patient_id == TranscriptOf(soap).patient_id
            IN  \E g \in get_collection :
                \E history \in retrieve_patient_history(
                                   g, task[i].doctor_id, patient_id, N_RESULTS) :
                    /\ rag_collection' = g.collection
                    /\ rag_disabled' = g.disabled
                    /\ task' = IF history.raised
                               THEN [task EXCEPT ![i].pc = "except",
                                                 ![i].raised_at = "retrieve"]
                               ELSE [task EXCEPT
                                        ![i].pc = "call1",
                                        ![i].patient_id = patient_id,
                                        ![i].prompt = build_prompt(
                                            history.text, task[i].transcript_text)]
    /\ UNCHANGED <<patients, transcripts, soap_notes, id_seq, req, chroma>>

\* what the gateway is asked and what it answers, as the gateway sees it
Returned(prompt, out) == [prompt |-> prompt, raised |-> FALSE, output |-> out]

Raised(prompt) == [prompt |-> prompt, raised |-> TRUE, output |-> <<>>]

\* lines 166-174: the first call returns; strip the preamble, validate
FirstCallReturns(i, out) ==
    /\ task[i].pc = "call1"
    /\ Runnable(i)
    /\ LET note == StripPreamble(out)
           v == validate_soap_output(note)
       IN  task' = [task EXCEPT
                ![i].pc = IF RetryNeeded(v.valid) THEN "call2" ELSE "save",
                ![i].note = note,
                ![i].valid = v.valid,
                ![i].reason = v.reason,
                ![i].calls = Append(@, Returned(task[i].prompt, out))]
    /\ UNCHANGED <<patients, transcripts, soap_notes, id_seq, req,
                   rag_collection, rag_disabled, chroma>>

\* a retry whose output is dropped: the first output is validated again
SecondCallStale(i, out) ==
    /\ task[i].pc = "call2"
    /\ Runnable(i)
    /\ task' = [task EXCEPT
            ![i].pc = "save",
            ![i].calls = Append(@, Returned(task[i].prompt, out))]
    /\ UNCHANGED <<patients, transcripts, soap_notes, id_seq, req,
                   rag_collection, rag_disabled, chroma>>

\* lines 176-181: the retry returns; strip the preamble, validate
SecondCallReturns(i, out) ==
    /\ task[i].pc = "call2"
    /\ Runnable(i)
    /\ LET note == StripPreamble(out)
           v == validate_soap_output(note)
       IN  task' = [task EXCEPT
                ![i].pc = "save",
                ![i].note = note,
                ![i].valid = v.valid,
                ![i].reason = v.reason,
                ![i].calls = Append(@, Returned(task[i].prompt, out))]
    /\ UNCHANGED <<patients, transcripts, soap_notes, id_seq, req,
                   rag_collection, rag_disabled, chroma>>

\* call_llm raises (transport error, status, timeout, configuration)
CallRaises(i) ==
    /\ task[i].pc \in {"call1", "call2"}
    /\ Runnable(i)
    /\ task' = [task EXCEPT
            ![i].pc = AfterLLMError(task[i].pc),
            ![i].raised_at = task[i].pc,
            ![i].calls = Append(@, Raised(task[i].prompt))]
    /\ UNCHANGED <<patients, transcripts, soap_notes, id_seq, req,
                   rag_collection, rag_disabled, chroma>>

\* lines 183-188: status and content, committed
TaskSave(i) ==
    /\ task[i].pc = "save"
    /\ Runnable(i)
    /\ LET status == FinalStatus(task[i].valid)
           content == FinalContent(task[i].valid, task[i].note, task[i].reason)
       IN  /\ soap_notes' = WithNote(task[i].soap_id, status, content)
           /\ task' = [task EXCEPT ![i] =
                    IF ShouldStore(status)
                    THEN [task[i] EXCEPT !.pc = "store", !.status = status]
                    ELSE Finished(task[i])]
    /\ UNCHANGED <<patients, transcripts, id_seq, req,
                   rag_collection, rag_disabled, chroma>>

\* lines 191-197 and store_note_embedding
TaskStore(i) ==
    /\ task[i].pc = "store"
    /\ Runnable(i)
    /\ \E g \in get_collection :
       \E stored \in store_note_embedding(g, task[i].doctor_id, task[i].patient_id,
                                          task[i].note, task[i].soap_id) :
        /\ rag_collection' = g.collection
        /\ rag_disabled' = g.disabled
        /\ chroma' = stored.chroma
        /\ task' = IF stored.raised
                   THEN \* nothing catches it before line 201
                        [task EXCEPT ![i].pc = "except", ![i].raised_at = "store"]
                   ELSE [task EXCEPT ![i] = Finished(task[i])]
    /\ UNCHANGED <<patients, transcripts, soap_notes, id_seq, req>>

\* a handler that logs and rolls back, and leaves the note as it is
TaskExceptLogOnly(i) ==
    /\ task[i].pc = "except"
    /\ Runnable(i)
    /\ task' = [task EXCEPT ![i] = Finished(task[i])]
    /\ UNCHANGED <<patients, transcripts, soap_notes, id_seq, req,
                   rag_collection, rag_disabled, chroma>>

\* lines 201-208: rollback, and the note, if found, is failed
TaskExcept(i) ==
    /\ task[i].pc = "except"
    /\ Runnable(i)
    /\ soap_notes' =
            IF NoteRows(task[i].soap_id) # {}
            THEN WithNote(task[i].soap_id, "FAILED", INTERNAL_ERROR)
            ELSE soap_notes
    /\ task' = [task EXCEPT ![i] = Finished(task[i])]
    /\ UNCHANGED <<patients, transcripts, id_seq, req,
                   rag_collection, rag_disabled, chroma>>

TaskStep(i) ==
    \/ TaskStart(i)
    \/ \E out \in LLMOutputs : FirstCallReturns(i, out)
    \/ \E out \in LLMOutputs : SecondCallReturns(i, out)
    \/ CallRaises(i)
    \/ TaskSave(i)
    \/ TaskStore(i)
    \/ TaskExcept(i)

(***************************************************************************)
(* notes.py: get_note_status and update_soap_note.                         *)
(***************************************************************************)
\* the ids a caller may ask for: those the sequence can have given out
NoteIds == 1..Len(req)

NOT_FOUND == [status_code |-> 404, detail |-> "Note not found"]

\* the query without its filter on Transcript.doctor_id
NotesOfAnyDoctor(note_id, user) == {n \in soap_notes : n.id = note_id}

\* SOAPNote joined with Transcript, filtered by id and Transcript.doctor_id
OwnedNotes(note_id, user) ==
    {n \in soap_notes : n.id = note_id /\ TranscriptOf(n).doctor_id = user}

\* what get_note_status answers; it writes nothing
StatusResponse(user, note_id) ==
    LET found == OwnedNotes(note_id, user)
    IN  IF found = {}
        THEN {NOT_FOUND}
        ELSE {[status_code |-> 200, id |-> note.id,
               soap_number |-> note.doctor_soap_number,
               status |-> note.status, content |-> note.content] : note \in found}

get_note_status(user, note_id) ==
    /\ StatusResponse(user, note_id) # {}
    /\ UNCHANGED vars

\* what update_soap_note answers
UpdateResponse(user, note_id) ==
    IF OwnedNotes(note_id, user) = {}
    THEN NOT_FOUND
    ELSE [status_code |-> 200, status |-> "success"]

\* an update that also marks the note COMPLETED
UpdateAndComplete(user, note_id, updated_content) ==
    /\ LET found == OwnedNotes(note_id, user)
       IN  IF found = {}
           THEN UNCHANGED soap_notes
           ELSE \E note \in found :
                soap_notes' = {IF n = note
                               THEN [n EXCEPT !.content = updated_content,
                                              !.status = "COMPLETED"]
                               ELSE n : n \in soap_notes}
    /\ UNCHANGED <<patients, transcripts, id_seq, req, task,
                   rag_collection, rag_disabled, chroma>>

update_soap_note(user, note_id, updated_content) ==
    /\ LET found == OwnedNotes(note_id, user)
       IN  IF found = {}
           THEN UNCHANGED soap_notes
           ELSE \E note \in found :
                soap_notes' = {IF n = note
                               THEN [n EXCEPT !.content = updated_content]
                               ELSE n : n \in soap_notes}
    /\ UNCHANGED <<patients, transcripts, id_seq, req, task,
                   rag_collection, rag_disabled, chroma>>

(***************************************************************************)
(* The system.                                                             *)
(***************************************************************************)
Submit(i) ==
    \/ \E doctor \in Doctors, name \in PatientNames,
          age \in {None} \cup {Some(a) : a \in Ages}, text \in RawTranscripts :
            SubmitBegin(i, doctor, name, age, text)
    \/ SubmitNumber(i)
    \/ SubmitCommit(i)

Next ==
    \/ \E i \in Reqs : Submit(i)
    \/ \E i \in Reqs : TaskStep(i)
    \/ \E user \in Doctors, id \in NoteIds : get_note_status(user, id)
    \/ \E user \in Doctors, id \in NoteIds, text \in EditTexts :
            update_soap_note(user, id, text)

Spec == Init /\ [][Next]_vars

(***************************************************************************)
(* The submit handler alone, with more concurrent requests.  No step of a  *)
(* background run and no update writes a patient, a transcript, an id, a   *)
(* request, or the doctor_id and doctor_soap_number of a note: what this   *)
(* specification shows of those holds of the whole system.                 *)
(***************************************************************************)
SubmitInit == InitWith(MaxSubmit)

SubmitNext == \E i \in Reqs : Submit(i)

SubmitSpec == SubmitInit /\ [][SubmitNext]_vars

\* the event loop runs a run that can go on: a scheduled run is started, and
\* a call of the gateway returns or raises
FairSpec == Spec /\ WF_vars(\E i \in Reqs : TaskStep(i))

(***************************************************************************)
(* The whole system with a record store that can fail: a statement of the  *)
(* run's session (db.query at line 151, db.commit at line 188, and the     *)
(* rollback, query and commit of the handler at lines 203-208) either      *)
(* succeeds or raises.                                                     *)
(***************************************************************************)
\* line 151 raises: the except clause of line 201 is entered
FetchRaises(i) ==
    /\ task[i].pc = "start"
    /\ Runnable(i)
    /\ task' = [task EXCEPT ![i].pc = "except", ![i].raised_at = "query"]
    /\ UNCHANGED <<patients, transcripts, soap_notes, id_seq, req,
                   rag_collection, rag_disabled, chroma>>

\* line 188 raises: nothing is written, the except clause is entered
CommitRaises(i) ==
    /\ task[i].pc = "save"
    /\ Runnable(i)
    /\ task' = [task EXCEPT ![i].pc = "except", ![i].raised_at = "commit"]
    /\ UNCHANGED <<patients, transcripts, soap_notes, id_seq, req,
                   rag_collection, rag_disabled, chroma>>

\* a statement of lines 203-208 raises inside the except clause: no clause
\* encloses it, finally closes the session and the exception leaves
\* process_transcript_task
HandlerRaises(i) ==
    /\ task[i].pc = "except"
    /\ Runnable(i)
    /\ task' = [task EXCEPT ![i] = [Finished(task[i]) EXCEPT !.pc = "escaped"]]
    /\ UNCHANGED <<patients, transcripts, soap_notes, id_seq, req,
                   rag_collection, rag_disabled, chroma>>

OutageNext ==
    \/ Next
    \/ \E i \in Reqs : FetchRaises(i)
    \/ \E i \in Reqs : CommitRaises(i)
    \/ \E i \in Reqs : HandlerRaises(i)

OutageSpec == Init /\ [][OutageNext]_vars

(***************************************************************************)
(* rag_engine.py alone: the calls the runs make to the collection, in any  *)
(* number and order.  A run passes the doctor of the request and the       *)
(* patient of the note's transcript, a text the validator accepted, and    *)
(* the id of its note, which no other run has.                             *)
(***************************************************************************)
\* number of notes whose run calls store_note_embedding
MaxEntries == 3

\* the (doctor_id, patient_id) of the notes: a patient row has one doctor
DoctorPatients == {<<1, 1>>, <<1, 2>>, <<2, 3>>}

\* the texts the runs store
StoredNotes == {OUT_VALID, StripPreamble(OUT_PREAMBLE)}

RagInit == InitWith(0)

\* lines 159-162 of llm_engine.py: history = retrieve_patient_history(...)
RagRetrieve(doctor_id, patient_id) ==
    /\ \E g \in get_collection :
        /\ retrieve_patient_history(g, doctor_id, patient_id, N_RESULTS) # {}
        /\ rag_collection' = g.collection
        /\ rag_disabled' = g.disabled
    /\ UNCHANGED <<patients, transcripts, soap_notes, id_seq, req, task, chroma>>

\* lines 191-197 of llm_engine.py: store_note_embedding(...)
RagStore(doctor_id, patient_id, soap_note, note_id) ==
    /\ \A e \in chroma : e.metadata.note_id # note_id
    /\ \E g \in get_collection :
       \E stored \in store_note_embedding(g, doctor_id, patient_id, soap_note, note_id) :
        /\ rag_collection' = g.collection
        /\ rag_disabled' = g.disabled
        /\ chroma' = stored.chroma
    /\ UNCHANGED <<patients, transcripts, soap_notes, id_seq, req, task>>

RagNext ==
    \/ \E dp \in DoctorPatients : RagRetrieve(dp[1], dp[2])
    \/ \E dp \in DoctorPatients, soap_note \in StoredNotes, note_id \in 1..MaxEntries :
            RagStore(dp[1], dp[2], soap_note, note_id)

RagSpec == RagInit /\ [][RagNext]_vars

(***************************************************************************)
(* sanitize_transcript alone, on every short text of a small alphabet and  *)
(* on some longer texts: the request holds the text, the step is line 60   *)
(* of notes.py.                                                            *)
(***************************************************************************)
\* length of the texts of the alphabet
MaxTextLen == 4

TextAlphabet == {"p", "T", ":", " ", "\t", "\n", "\r"}

PT_CO_FEVER ==
    <<"P", "t", " ", "c", "/", "o", " ", "f", "e", "v", "e", "r", " ",
      "x", "2", " ", "d", "a", "y", "s">>

\* every letter case of the shorthands, with and without the colon
MIXED_CASE ==
    <<"d", "r", ":", " ", "H", "X", " ", "C", "/", "O", ":", " ", "p", "t", ":", ":">>

\* the shorthands inside longer words
NO_BOUNDARY ==
    <<"a", "p", "t", " ", "D", "r", "_", " ", "h", "x", "1", " ", "c", "/", "o", "x">>

\* the four expansions themselves
EXPANDED ==
    <<"P", "a", "t", "i", "e", "n", "t", ":", " ", "D", "o", "c", "t", "o", "r", ":",
      " ", "H", "i", "s", "t", "o", "r", "y", "\n", "C", "o", "m", "p", "l", "a", "i",
      "n", "s", " ", "o", "f">>

\* runs of blanks and of line breaks between shorthands
RAGGED ==
    <<" ", "h", "X", " ", "\t", " ", " ", "D", "R", "\r", "\n", " ", "\r", "\t",
      "\n", "\n", "p", "t", " ", "\t">>

SampleTexts == {PT_CO_FEVER, MIXED_CASE, NO_BOUNDARY, EXPANDED, RAGGED}

TextInputs ==
    SampleTexts \cup UNION {[1..k -> TextAlphabet] : k \in 0..MaxTextLen}

SanitizeInit ==
    /\ patients = {}
    /\ transcripts = {}
    /\ soap_notes = {}
    /\ id_seq = [patients |-> 1, transcripts |-> 1, soap_notes |-> 1]
    /\ req \in {<<[IdleReq EXCEPT !.transcript_text = t]>> : t \in TextInputs}
    /\ task = <<NoTask>>
    /\ rag_collection = None
    /\ rag_disabled = FALSE
    /\ chroma = {}

\* clean_text = sanitize_transcript(request.transcript_text)
Sanitize(i) ==
    /\ req[i].pc = "idle"
    /\ req' = [req EXCEPT ![i].pc = "sanitized",
                          ![i].clean_text = sanitize_transcript(req[i].transcript_text)]
    /\ UNCHANGED <<patients, transcripts, soap_notes, id_seq, task,
                   rag_collection, rag_disabled, chroma>>

SanitizeNext == \E i \in Reqs : Sanitize(i)

SanitizeSpec == SanitizeInit /\ [][SanitizeNext]_vars

(***************************************************************************)
(* validate_soap_output alone, on texts built from markers and bodies in   *)
(* every arrangement: the run holds the model's output, the step is line   *)
(* 171 of llm_engine.py.                                                   *)
(***************************************************************************)
\* number of markers of an arrangement
MaxMarkers == 4

\* every arrangement of up to MaxMarkers markers: missing, repeated, out of order
MarkerSeqs == UNION {[1..k -> {SUBJ, OBJ, ASSESS, PLAN}] : k \in 0..MaxMarkers}

\* what precedes the first marker
Leads == {<<>>, <<"\n", " ">>, <<"x">>}

PlainBodies == {<<>>, <<"a">>}

\* bodies of the texts whose markers are in order: blank, plain, the
\* sentinel, and the five forbidden formats
RichBodies ==
    {<<>>, <<" ", "\n">>, <<"a", " ", "-", "b">>,
     <<"Not mentioned">>, <<" ", "NOT MENTIONED", ".", "\n">>,
     <<"\n", "-", " ", "a">>, <<"\n", " ", "*", "\t", "a">>,
     <<"\n", "1", "2", ".", " ", "a">>, <<"\n", "#", "#", " ", "a">>,
     <<"a", BQ, BQ, BQ>>}

\* the markers, each followed by its body
RECURSIVE Sections(_, _)
Sections(ms, bs) ==
    IF ms = <<>> THEN <<>>
    ELSE <<Head(ms)>> \o Head(bs) \o Sections(Tail(ms), Tail(bs))

ValidateTexts ==
    UNION {{lead \o Sections(ms, bs) : lead \in Leads, ms \in {m}, bs \in [1..Len(m) -> PlainBodies]}
               : m \in MarkerSeqs}
    \cup {Sections(REQUIRED_SECTIONS, bs) : bs \in [1..4 -> RichBodies]}

ValidateInit ==
    /\ patients = {}
    /\ transcripts = {}
    /\ soap_notes = {}
    /\ id_seq = [patients |-> 1, transcripts |-> 1, soap_notes |-> 1]
    /\ req = <<IdleReq>>
    /\ task \in {<<[NoTask EXCEPT !.pc = "output", !.note = t]>> : t \in ValidateTexts}
    /\ rag_collection = None
    /\ rag_disabled = FALSE
    /\ chroma = {}

\* is_valid, reason = validate_soap_output(soap_note)
Validate(i) ==
    /\ task[i].pc = "output"
    /\ LET v == validate_soap_output(task[i].note)
       IN  task' = [task EXCEPT ![i].pc = "validated",
                                ![i].valid = v.valid,
                                ![i].reason = v.reason]
    /\ UNCHANGED <<patients, transcripts, soap_notes, id_seq, req,
                   rag_collection, rag_disabled, chroma>>

ValidateNext == \E i \in DOMAIN task : Validate(i)

ValidateSpec == ValidateInit /\ [][ValidateNext]_vars

(***************************************************************************)
(* Numbering of the notes of a doctor (SubmitSpec).                        *)
(***************************************************************************)
\* C1: in every reachable state, whatever the interleaving of the submit
\* requests, no two notes of the same doctor have the same
\* doctor_soap_number: a request whose max+1 read collided with another
\* one's does not commit a second note with that number.
C1_UniqueNumberPerDoctor ==
    \A a, b \in soap_notes :
        (a.doctor_id = b.doctor_id /\ a.doctor_soap_number = b.doctor_soap_number)
            => a.id = b.id

\* two requests of one doctor computed the same number; one committed it and
\* the other was refused
C1_CollisionRefused ==
    \E i, j \in Reqs :
        /\ i # j
        /\ req[i].pc = "done" /\ req[j].pc = "done"
        /\ req[i].age # None /\ req[j].age # None
        /\ req[i].doctor_id = req[j].doctor_id
        /\ req[i].next_number = req[j].next_number
        /\ Get(req[i].resp).status_code = 200
        /\ Get(req[j].resp) = SUBMIT_FAILED
        /\ \E n \in soap_notes :
            /\ n.doctor_id = req[i].doctor_id
            /\ n.doctor_soap_number = req[i].next_number

\* C2: the requests of one doctor that were submitted with an age and have
\* been answered all yielded a note, and the numbers of the doctor's notes
\* are exactly 1..N for the N such requests: distinct and without a gap.
C2_AllYieldGapFree ==
    \A d \in Doctors :
        LET answered == {i \in Reqs : /\ req[i].pc = "done"
                                      /\ req[i].doctor_id = d
                                      /\ req[i].age # None}
            numbers == {n.doctor_soap_number : n \in {m \in soap_notes : m.doctor_id = d}}
        IN  /\ \A i \in answered : Get(req[i].resp).status_code = 200
            /\ numbers = 1..Cardinality(answered)

C4_TerminalStatus ==
    [][\A n \in soap_notes : \A m \in soap_notes' :
            (m.id = n.id /\ m.status # n.status)
                => /\ n.status = "PROCESSING"
                   /\ m.status \in {"COMPLETED", "FAILED"}]_vars

\* C5: a failure of the collection never fails a note: once the run has
\* committed COMPLETED with the validated text, the steps of its call of
\* store_note_embedding and of what follows a failure of that call leave the
\* row of the note as it is.
C5_StoreFailureKeepsNote ==
    [][\A i \in Reqs :
            (/\ \/ task[i].pc = "store"
                \/ task[i].pc = "except" /\ task[i].raised_at = "store"
             /\ task'[i] # task[i])
                => \A n \in soap_notes : n.id = task[i].soap_id => n \in soap_notes']_vars

\* C6: when the gateway raises on the first call of a run, the run calls it
\* a second time (and the note is COMPLETED if that call returns a valid
\* text): the position after a first call that raised is the second call.
C6_FirstErrorRetried ==
    [][\A i \in Reqs :
            (/\ task[i].pc = "call1"
             /\ task'[i].calls = <<Raised(task[i].prompt)>>)
                => task'[i].pc = "call2"]_vars

\* C7: a run calls the gateway at most twice.  A second call is made if and
\* only if the first output, cut at the first "SUBJECTIVE:", fails
\* validation; it is made with the prompt of the first; its output is cut
\* and validated the same way; and there is no third call.
C7_AtMostOneRetry ==
    \A i \in Reqs :
        LET calls == task[i].calls
            second == task[i].pc = "call2" \/ Len(calls) = 2
            text(k) == IF Contains(calls[k].output, SUBJ)
                       THEN SubSeq(calls[k].output, Index(calls[k].output, SUBJ),
                                   Len(calls[k].output))
                       ELSE calls[k].output
        IN  /\ Len(calls) <= 2
            /\ task[i].pc \in {"call1", "call2"} => Len(calls) < 2
            /\ Len(calls) >= 1 =>
                    (second <=> (~calls[1].raised /\ ~validate_soap_output(text(1)).valid))
            /\ Len(calls) = 2 => calls[2].prompt = calls[1].prompt
            /\ (Len(calls) = 2 /\ ~calls[2].raised) =>
                    /\ task[i].note = text(2)
                    /\ task[i].valid = validate_soap_output(text(2)).valid
                    /\ task[i].reason = validate_soap_output(text(2)).reason

\* a run has made its second call, and the gateway has answered it
C7_RetryAnswered ==
    \E i \in Reqs :
        /\ Len(task[i].calls) = 2
        /\ ~task[i].calls[1].raised
        /\ ~task[i].calls[2].raised
        /\ task[i].pc = "save"

\* C8: when the output of the first call and the output of the retry both
\* fail validation, the run commits the note FAILED with the content
\* "INVALID SOAP OUTPUT: " followed by the reason the validator gave for the
\* second output.
C8_TwiceInvalidFails ==
    [][\A i \in Reqs :
            (/\ task[i].pc = "save"
             /\ task'[i].pc # "save"
             /\ Len(task[i].calls) = 2
             /\ ~validate_soap_output(StripPreamble(task[i].calls[1].output)).valid
             /\ ~validate_soap_output(StripPreamble(task[i].calls[2].output)).valid)
                => /\ task'[i].pc = "done"
                   /\ \E n \in soap_notes' :
                        /\ n.id = task[i].soap_id
                        /\ n.status = "FAILED"
                        /\ n.content = <<"INVALID SOAP OUTPUT", ":", " ">> \o
                             validate_soap_output(
                                 StripPreamble(task[i].calls[2].output)).reason]_vars

\* a run whose two outputs were rejected for different reasons is over, and
\* its note carries the reason of the second
C8_SecondReasonSaved ==
    \E i \in Reqs :
        /\ task[i].pc = "done"
        /\ \E n \in soap_notes :
            /\ n.id = task[i].soap_id
            /\ n.status = "FAILED"
            /\ n.content = <<"INVALID SOAP OUTPUT", ":", " ">> \o
                              validate_soap_output(OUT_MISSING).reason
            /\ n.content # <<"INVALID SOAP OUTPUT", ":", " ">> \o
                              validate_soap_output(OUT_BULLET).reason

\* C9: when the last output of the gateway (the first, or the retry's when
\* there was a retry), cut at the first "SUBJECTIVE:", passes validation,
\* the run commits the note COMPLETED with exactly that text as content.
C9_ValidOutputSaved ==
    [][\A i \in Reqs :
            (/\ task[i].pc = "save"
             /\ task'[i].pc # "save"
             /\ task[i].calls # <<>>
             /\ validate_soap_output(
                    StripPreamble(task[i].calls[Len(task[i].calls)].output)).valid)
                => \E n \in soap_notes' :
                        /\ n.id = task[i].soap_id
                        /\ n.status = "COMPLETED"
                        /\ n.content =
                             StripPreamble(task[i].calls[Len(task[i].calls)].output)]_vars

\* a run has committed the output of its retry, the first having been
\* rejected
C9_RetryOutputSaved ==
    \E i \in Reqs :
        /\ task[i].pc = "store"
        /\ Len(task[i].calls) = 2
        /\ \E n \in soap_notes :
            /\ n.id = task[i].soap_id
            /\ n.status = "COMPLETED"
            /\ n.content = StripPreamble(task[i].calls[2].output)
            /\ n.content # StripPreamble(task[i].calls[1].output)
            /\ n.content # task[i].calls[2].output

\* C10: an entry of the collection is written only for a note whose
\* COMPLETED status is committed: store_note_embedding is not called while
\* the note is PROCESSING nor by a run that ends with the note FAILED, there
\* is at most one entry for a note, and no entry is changed or removed.
C10_EntriesOnlyForCompleted ==
    [][/\ \A i \in Reqs :
            \* the step that calls store_note_embedding
            (task[i].pc = "store" /\ task'[i].pc # "store")
                => \E n \in soap_notes : n.id = task[i].soap_id /\ n.status = "COMPLETED"
       /\ \A i \in Reqs :
            \* the last step of a run that has called it
            (task[i].pc = "except" /\ task[i].raised_at = "store" /\ task'[i].pc = "done")
                => \E n \in soap_notes' : n.id = task[i].soap_id /\ n.status # "FAILED"
       /\ \A e \in chroma' :
            \E n \in soap_notes' : n.id = e.metadata.note_id /\ n.status = "COMPLETED"
       /\ \A e, f \in chroma' : e.metadata.note_id = f.metadata.note_id => e = f
       /\ chroma \subseteq chroma']_vars

(***************************************************************************)
(* The endpoints (Spec).                                                   *)
(***************************************************************************)
\* C11: a submit without an age is answered with a client error (a 4xx
\* status, not a server error), and the step that answers it creates no
\* patient, transcript or note and schedules no run.
C11_MissingAgeClientError ==
    [][\A i \in Reqs :
            (req[i].pc = "idle" /\ req'[i].pc = "done" /\ req'[i].age = None)
                => /\ Get(req'[i].resp).status_code \in 400..499
                   /\ UNCHANGED <<patients, transcripts, soap_notes, id_seq, task>>]_vars

\* C12: get_note_status, called by doctor A for a note id, answers the id,
\* number, status and content of the note only if the note is A's; for a
\* note of another doctor, or an id no note has, it answers the same
\* not-found response, which carries nothing of the note.
C12_StatusOnlyForOwner ==
    \A user \in Doctors, note_id \in NoteIds :
        LET own == {n \in soap_notes : n.id = note_id /\ n.doctor_id = user}
        IN  IF own = {}
            THEN StatusResponse(user, note_id) =
                    {[status_code |-> 404, detail |-> "Note not found"]}
            ELSE StatusResponse(user, note_id) =
                    {[status_code |-> 200, id |-> n.id,
                      soap_number |-> n.doctor_soap_number,
                      status |-> n.status, content |-> n.content] : n \in own}

\* a finished note that its doctor can read and the other doctor cannot
C12_OtherDoctorNotFound ==
    \E n \in soap_notes, other \in Doctors :
        /\ other # n.doctor_id
        /\ n.status = "COMPLETED"
        /\ StatusResponse(other, n.id) = {NOT_FOUND}
        /\ \E r \in StatusResponse(n.doctor_id, n.id) :
            r.status_code = 200 /\ r.content = n.content

C14_ContentMatchesStatus ==
    \A n \in soap_notes :
        /\ n.status = "PROCESSING" =>
                n.content = <<"AI is generating your note. Please wait...">>
        /\ n.status = "COMPLETED" => validate_soap_output(n.content).valid
        /\ n.status = "FAILED" =>
                \/ n.content = <<"Generation failed due to an internal error.">>
                \/ /\ Len(n.content) > 3
                   /\ SubSeq(n.content, 1, 3) = <<"INVALID SOAP OUTPUT", ":", " ">>

\* C14 (amended): in every reachable state the content of a note either is
\* a text that update_soap_note wrote, or matches its status: the
\* placeholder while PROCESSING, a text the validator accepts while
\* COMPLETED, a diagnostic text while FAILED.
C14_ContentMatchesStatusOrEdited ==
    \A n \in soap_notes :
        \/ n.content \in EditTexts
        \/ /\ n.status \in {"PROCESSING", "COMPLETED", "FAILED"}
           /\ n.status = "PROCESSING" =>
                n.content = <<"AI is generating your note. Please wait...">>
           /\ n.status = "COMPLETED" => validate_soap_output(n.content).valid
           /\ n.status = "FAILED" =>
                \/ n.content = <<"Generation failed due to an internal error.">>
                \/ /\ Len(n.content) > 3
                   /\ SubSeq(n.content, 1, 3) = <<"INVALID SOAP OUTPUT", ":", " ">>

\* a note edited while its run is still going
C14_EditedWhileProcessing ==
    \E n \in soap_notes, i \in Reqs :
        /\ task[i].soap_id = n.id
        /\ task[i].pc \in {"call1", "call2"}
        /\ n.status = "PROCESSING"
        /\ n.content \in EditTexts

(***************************************************************************)
(* The collection (RagSpec).                                               *)
(***************************************************************************)
\* C15: once the initialization of the collection has failed, the store is
\* disabled for the rest of the process: _rag_disabled is never cleared,
\* initialization is not attempted again (get_collection returns None and
\* _collection stays None), every later call of store_note_embedding
\* returns without writing or raising, and every later call of
\* retrieve_patient_history returns the fallback phrase.  And a collection
\* that became ready stays, and the store is never disabled after.
C15_DisabledForGood ==
    [][/\ rag_disabled =>
            /\ rag_disabled' /\ rag_collection = <<>> /\ rag_collection' = <<>>
            /\ chroma' = chroma
            /\ \A g \in get_collection : g.result = <<>>
            /\ \A g \in get_collection, dp \in DoctorPatients :
                /\ retrieve_patient_history(g, dp[1], dp[2], N_RESULTS) =
                        {[raised |-> FALSE,
                          text |-> <<"No previous medical history available.">>]}
                /\ \A soap_note \in StoredNotes, note_id \in 1..MaxEntries :
                    store_note_embedding(g, dp[1], dp[2], soap_note, note_id) =
                        {[chroma |-> chroma, raised |-> FALSE]}
       /\ rag_collection # <<>> =>
            /\ rag_collection' = rag_collection
            /\ ~rag_disabled /\ ~rag_disabled']_vars

\* the initialization has failed
C15_InitFailed == rag_disabled /\ rag_collection = <<>> /\ chroma = {}

\* C16: retrieve_patient_history never raises and never returns the empty
\* string.  It returns exactly "No previous medical history available."
\* when the store is disabled or its initialization fails, when the query
\* fails, and when the collection has no entry of the (doctor, patient);
\* otherwise it returns the documents the query found (one, or two when
\* there are two or more) joined by "\n---\n".
C16_RetrieveFallbackOrJoined ==
    \A dp \in DoctorPatients : \A g \in get_collection :
        LET found == {e \in chroma : /\ e.metadata.doctor_id = dp[1]
                                     /\ e.metadata.patient_id = dp[2]}
            results == retrieve_patient_history(g, dp[1], dp[2], N_RESULTS)
            fallback == <<"No previous medical history available.">>
        IN  /\ results # {}
            /\ \A r \in results :
                /\ ~r.raised
                /\ r.text # <<>>
                /\ (g.result = <<>> \/ found = {}) => r.text = fallback
                /\ \/ r.text = fallback
                   \/ /\ Cardinality(found) = 1
                      /\ \E e \in found : r.text = e.document
                   \/ /\ Cardinality(found) >= 2
                      /\ \E e, f \in found :
                            /\ e # f
                            /\ r.text = e.document \o <<"\n---\n">> \o f.document
            /\ (g.result # <<>> /\ found # {}) =>
                    \E r \in results : r.text # fallback

\* the collection is ready, one patient has more entries than a query
\* returns and another has none
C16_SeveralEntries ==
    /\ rag_collection # <<>>
    /\ \E dp \in DoctorPatients :
        Cardinality({e \in chroma : e.metadata.patient_id = dp[2]}) > N_RESULTS
    /\ \E dp \in DoctorPatients :
        {e \in chroma : e.metadata.patient_id = dp[2]} = {}

(***************************************************************************)
(* Sanitizing (SanitizeSpec).                                              *)
(***************************************************************************)
Sanitized(i) == req[i].pc = "sanitized"

\* C17: sanitize is idempotent: sanitizing a sanitized text gives the same
\* text; a text made of the expansions Patient:, Doctor:, History and
\* Complains of is left as it is, and so is the output of the collapsing of
\* blanks and line breaks.
C17_SanitizeIdempotent ==
    \A i \in Reqs :
        Sanitized(i) =>
            /\ sanitize_transcript(req[i].clean_text) = req[i].clean_text
            /\ req[i].transcript_text = EXPANDED => req[i].clean_text = EXPANDED

\* runs of blanks and line breaks were collapsed and shorthands expanded
C17_RaggedSanitized ==
    \E i \in Reqs :
        /\ Sanitized(i)
        /\ req[i].transcript_text = RAGGED
        /\ Len(req[i].clean_text) > Len(RAGGED)
        /\ \A k \in 1..(Len(req[i].clean_text) - 1) :
               ~(IsWS(req[i].clean_text[k]) /\ IsWS(req[i].clean_text[k + 1]))

OnlyWhitespace(t) == \A k \in 1..Len(t) : t[k] \in {" ", "\t", "\n", "\r"}

\* C18, as stated: the empty text and the texts of whitespace become
\* "No transcript provided.", and "Pt c/o fever x2 days" becomes
\* "Patient: complains of fever x2 days".
C18_FeverLowerCase ==
    \A i \in Reqs :
        Sanitized(i) =>
            /\ OnlyWhitespace(req[i].transcript_text)
                   => req[i].clean_text = <<"No transcript provided.">>
            /\ req[i].transcript_text = PT_CO_FEVER
                   => req[i].clean_text =
                          <<"P", "a", "t", "i", "e", "n", "t", ":", " ",
                            "c", "o", "m", "p", "l", "a", "i", "n", "s", " ", "o", "f",
                            " ", "f", "e", "v", "e", "r", " ", "x", "2", " ",
                            "d", "a", "y", "s">>

\* C18, amended: the empty text and the texts of whitespace become
\* "No transcript provided.", and "Pt c/o fever x2 days" becomes
\* "Patient: Complains of fever x2 days": the shorthand is matched in any
\* letter case and the expansion is written with its capital letter.
C18_FeverAsExpanded ==
    \A i \in Reqs :
        Sanitized(i) =>
            /\ OnlyWhitespace(req[i].transcript_text)
                   => req[i].clean_text = <<"No transcript provided.">>
            /\ req[i].transcript_text = PT_CO_FEVER
                   => req[i].clean_text =
                          <<"P", "a", "t", "i", "e", "n", "t", ":", " ",
                            "C", "o", "m", "p", "l", "a", "i", "n", "s", " ", "o", "f",
                            " ", "f", "e", "v", "e", "r", " ", "x", "2", " ",
                            "d", "a", "y", "s">>

\* the scenario's text was sanitized
C18_FeverSanitized ==
    \E i \in Reqs :
        /\ Sanitized(i)
        /\ req[i].transcript_text = PT_CO_FEVER
        /\ req[i].clean_text # PT_CO_FEVER

(***************************************************************************)
(* Validation (ValidateSpec).                                              *)
(***************************************************************************)
Validated(i) == task[i].pc = "validated"

MARKERS == <<"SUBJECTIVE:", "OBJECTIVE:", "ASSESSMENT:", "PLAN:">>

\* the markers that do not occur in t
Lacking(t) == {m \in 1..4 : \A k \in 1..Len(t) : t[k] # MARKERS[m]}

\* the offset of the first occurrence of marker m in t
FirstAt(t, m) ==
    CHOOSE k \in 1..Len(t) : t[k] = MARKERS[m] /\ \A j \in 1..(k - 1) : t[j] # MARKERS[m]

\* some marker first occurs before a marker listed before it
OutOfOrder(t) ==
    \E a \in 1..4 : \E b \in (a + 1)..4 :
        /\ {a, b} \cap Lacking(t) = {}
        /\ FirstAt(t, b) < FirstAt(t, a)

\* a line of t is a list item, a numbered item or a header, or t has a fence
ForbiddenLine(t) ==
    \/ \E i \in 1..Len(t) :
          /\ i = 1 \/ t[i - 1] = "\n"
          /\ LET line == SubSeq(t, i, Len(t))
                 item == LStrip(line)
             IN  \/ /\ Len(item) >= 2
                    /\ item[1] \in {"-", "*"}
                    /\ IsWS(item[2])
                 \/ \E n \in 1..(Len(item) - 2) :
                        /\ \A k \in 1..n : IsDigit(item[k])
                        /\ item[n + 1] = "."
                        /\ IsWS(item[n + 2])
                 \/ \E n \in 1..(Len(line) - 1) :
                        /\ \A k \in 1..n : line[k] = "#"
                        /\ IsWS(line[n + 1])
    \/ \E i \in 1..(Len(t) - 2) : SubSeq(t, i, i + 2) = <<BQ, BQ, BQ>>

\* the body of section m of t, markers present and in order, has no
\* character but whitespace
BlankBody(t, m) ==
    LET from == FirstAt(t, m) + 1
        to == IF m < 4 THEN FirstAt(t, m + 1) - 1 ELSE Len(t)
    IN  \A k \in from..to : IsWS(t[k])

\* C19: a text is rejected when, trimmed, it is empty, does not start with
\* SUBJECTIVE:, lacks one of the four markers (the reason of a text that
\* starts with SUBJECTIVE: names the first one it lacks), has first
\* occurrences out of order, or has a line with forbidden formatting; a text
\* is accepted, with the reason "Valid SOAP", only if none of these holds and
\* no body is blank.
C19_RejectsMalformed ==
    \A i \in DOMAIN task :
        Validated(i) =>
            LET t == Strip(task[i].note)
                malformed ==
                    \/ t = <<>>
                    \/ t[1] # "SUBJECTIVE:"
                    \/ Lacking(t) # {}
                    \/ OutOfOrder(t)
                    \/ ForbiddenLine(t)
            IN  /\ malformed => ~task[i].valid
                /\ (t # <<>> /\ t[1] = "SUBJECTIVE:" /\ Lacking(t) # {})
                       => \E m \in Lacking(t) :
                              /\ \A n \in Lacking(t) : m <= n
                              /\ task[i].reason = <<"Missing section: ", MARKERS[m]>>
                /\ task[i].valid
                       => /\ ~malformed
                          /\ \A m \in 1..4 : ~BlankBody(t, m)
                          /\ task[i].reason = <<"Valid SOAP">>
                /\ task[i].reason = <<"Valid SOAP">> => task[i].valid

\* a text with a numbered line and no other fault was rejected
C19_NumberedLineRejected ==
    \E i \in DOMAIN task :
        /\ Validated(i)
        /\ ~task[i].valid
        /\ task[i].note =
               <<"SUBJECTIVE:", "a", " ", "-", "b",
                 "OBJECTIVE:", "\n", "1", "2", ".", " ", "a",
                 "ASSESSMENT:", "Not mentioned",
                 "PLAN:", "a", " ", "-", "b">>

\* the texts C20 is about, as it is stated
MarkersInOrderUnformatted(t) ==
    /\ Lacking(t) = {}
    /\ ~OutOfOrder(t)
    /\ ~ForbiddenLine(t)

\* rejected for a blank body exactly when a body is blank, else accepted
BlankBodyRule(valid, reason, t) ==
    /\ (\E m \in 1..4 : BlankBody(t, m))
           <=> (~valid /\ Len(reason) = 2 /\ reason[1] = "Empty content under ")
    /\ (\A m \in 1..4 : ~BlankBody(t, m)) <=> valid
    /\ ~valid /\ Len(reason) = 2
           => \E m \in 1..4 :
                  /\ BlankBody(t, m)
                  /\ \A n \in 1..(m - 1) : ~BlankBody(t, n)
                  /\ reason[2] = MARKERS[m]

\* C20, as stated: a text with the four markers in order and no forbidden
\* formatting is rejected with "Empty content under <section>" exactly when
\* a body is blank, and accepted when no body is blank.
C20_BlankBodyRule ==
    \A i \in DOMAIN task :
        Validated(i) /\ MarkersInOrderUnformatted(Strip(task[i].note))
            => BlankBodyRule(task[i].valid, task[i].reason, Strip(task[i].note))

\* C20, amended: a text that starts with SUBJECTIVE:, with the four markers
\* in order and no forbidden formatting, is rejected with "Empty content
\* under <section>", naming the first section whose body is blank, exactly
\* when a body is blank, and accepted when no body is blank; the sentinel
\* bodies are not blank.
C20_BlankBodyRuleFromSubjective ==
    \A i \in DOMAIN task :
        LET t == Strip(task[i].note)
        IN  Validated(i) /\ MarkersInOrderUnformatted(t) /\ t[1] = "SUBJECTIVE:"
                => BlankBodyRule(task[i].valid, task[i].reason, t)

\* a text whose bodies are the sentinel, in upper case with a period and
\* as written, was accepted
C20_SentinelsAccepted ==
    \E i \in DOMAIN task :
        /\ Validated(i)
        /\ task[i].valid
        /\ task[i].note =
               <<"SUBJECTIVE:", "Not mentioned",
                 "OBJECTIVE:", " ", "NOT MENTIONED", ".", "\n",
                 "ASSESSMENT:", "Not mentioned",
                 "PLAN:", " ", "NOT MENTIONED", ".", "\n">>

(***************************************************************************)
(* The text put in the prompt (Spec).                                      *)
(***************************************************************************)
\* the text between the transcript heading of the prompt and its last line
PromptTranscript(prompt) ==
    SubSeq(prompt,
           Index(prompt, "CURRENT VISIT TRANSCRIPT (SOURCE OF TRUTH):") + 1,
           Len(prompt) - 1)

\* C21: the transcript text in the prompt of a run is the sanitized text,
\* the one saved on the transcript of the run's note, never the raw text of
\* the request.
C21_PromptTextSanitized ==
    \A i \in Reqs :
        task[i].prompt # <<>>
            => PromptTranscript(task[i].prompt)
                   = TranscriptOf(Note(task[i].soap_id)).text

(***************************************************************************)
(* Errors of a run (OutageSpec).                                           *)
(***************************************************************************)
\* C22: an error raised in a run is caught by the run: the step that
\* follows it sets the run's note, if it exists, to FAILED with the content
\* "Generation failed due to an internal error.", and ends the run; no
\* exception leaves the run.
C22_ErrorsCaughtNoteFailed ==
    [][\A i \in Reqs :
            (task[i].pc = "except" /\ task'[i] # task[i])
                => /\ task'[i].pc = "done"
                   /\ \A n \in soap_notes' :
                          n.id = task[i].soap_id
                              => /\ n.status = "FAILED"
                                 /\ n.content =
                                        <<"Generation failed due to an internal error.">>]_vars

(***************************************************************************)
(* The handoff of the run (Spec).                                          *)
(***************************************************************************)
\* the runs that were scheduled for the note with this id
RunsOf(id) == {i \in Reqs : task[i].pc # "none" /\ task[i].soap_id = id}

\* C23: a run is scheduled only once the note it is for is committed, by a
\* request that was answered 200; every committed note has exactly one run;
\* a request answered with an error has none; and no run fails to find its
\* note.
C23_RunAfterCommit ==
    /\ \A i \in Reqs :
           task[i].pc # "none"
               => /\ \E n \in soap_notes : n.id = task[i].soap_id
                  /\ req[i].pc = "done"
                  /\ Get(req[i].resp).status_code = 200
                  /\ Get(req[i].resp).id = task[i].soap_id
                  /\ task[i].raised_at # "fetch"
    /\ \A n \in soap_notes : Cardinality(RunsOf(n.id)) = 1
    /\ \A i \in Reqs :
           (req[i].pc = "done" /\ Get(req[i].resp).status_code # 200)
               => task[i].pc = "none"

\* a run has started and found its note
C23_RunFoundNote ==
    \E i \in Reqs :
        /\ task[i].pc = "call1"
        /\ \E n \in soap_notes : n.id = task[i].soap_id /\ n.status = "PROCESSING"

(***************************************************************************)
(* Patients of a doctor (SubmitSpec).                                      *)
(***************************************************************************)
\* C24: whatever the interleaving of the submit requests, no two patients
\* have the same doctor, name and age; and a request for a doctor, name and
\* age that a committed patient has takes that patient and creates none.
C24_OnePatientPerDoctorNameAge ==
    /\ \A p, q \in patients :
           (p.doctor_id = q.doctor_id /\ p.name = q.name /\ p.age = q.age)
               => p.id = q.id
    /\ \A i \in Reqs :
           (req[i].pc \in {"begun", "numbered"} /\ ~req[i].new_patient)
               => \E p \in patients :
                      /\ p.id = req[i].patient_id
                      /\ p.doctor_id = req[i].doctor_id
                      /\ p.name = req[i].patient_name
                      /\ p.age = Get(req[i].age)

(***************************************************************************)
(* Whose entries a history is made of (RagSpec).                           *)
(***************************************************************************)
\* the texts between the separators of a history
RECURSIVE HistoryParts(_)
HistoryParts(text) ==
    IF \E k \in 1..Len(text) : text[k] = "\n---\n"
    THEN LET k == CHOOSE j \in 1..Len(text) :
                      text[j] = "\n---\n" /\ \A x \in 1..(j - 1) : text[x] # "\n---\n"
         IN  <<SubSeq(text, 1, k - 1)>> \o HistoryParts(SubSeq(text, k + 1, Len(text)))
    ELSE <<text>>

\* the entries stored for this doctor and this patient
EntriesOf(doctor_id, patient_id) ==
    {e \in chroma : e.metadata.doctor_id = doctor_id /\ e.metadata.patient_id = patient_id}

\* C25: after any sequence of store calls, the history returned for a
\* doctor and a patient with a limit is the fallback phrase or is made of
\* the documents of at most limit entries, each stored for that doctor and
\* that patient; no document stored for another doctor or another
\* patient is part of it.
C25_HistoryOfThisPatientOnly ==
    \A dp \in DoctorPatients : \A g \in get_collection : \A limit \in 1..MaxEntries :
        \A r \in retrieve_patient_history(g, dp[1], dp[2], limit) :
            LET parts == HistoryParts(r.text)
            IN  \/ r.text = <<"No previous medical history available.">>
                \/ /\ Len(parts) <= limit
                   /\ \A k \in 1..Len(parts) :
                          /\ \E e \in EntriesOf(dp[1], dp[2]) : e.document = parts[k]
                          /\ \A e \in chroma \ EntriesOf(dp[1], dp[2]) :
                                 e.document # parts[k]

\* doctor 1 has two entries of patient 1 and one of patient 2, and the
\* history of patient 1 is made of two documents
C25_TwoPatientsOfOneDoctor ==
    /\ Cardinality(EntriesOf(1, 1)) = 2
    /\ Cardinality(EntriesOf(1, 2)) = 1
    /\ \E g \in get_collection :
       \E r \in retrieve_patient_history(g, 1, 1, N_RESULTS) :
            Len(HistoryParts(r.text)) = 2

=============================================================================
